---- MODULE Spec2Model ----
(***************************************************************************)
(* Model of AgentExecutorService                                           *)
(* (src/backend/libs/llm/src/agent-executor.service.ts): one run of        *)
(* execute(), from the agent lookup to the returned AgentExecutionResult   *)
(* or the rejection.  The collaborators (storage, LlmService.generate, the *)
(* tool executors) are the environment: every reply, failure and thrown    *)
(* error they can produce is a nondeterministic choice.  One action is one *)
(* stretch of code between two awaits.                                     *)
(*                                                                         *)
(* Texts are sequences of tokens, so that "the text contains m" can be     *)
(* stated; the JavaScript value undefined is the reserved text Undefined.  *)
(*                                                                         *)
(* Spec is the run against a model that may answer anything; SpecFair is   *)
(* the run against a model that keeps asking for tools, with every pending *)
(* call resolving.  Two further specifications model the services around   *)
(* the executor (src/backend/libs/agents/src): SpecPrompts, the system     *)
(* prompt versions of AgentsService, and SpecChat, ChatService beside the  *)
(* agent operations of AgentsService.  SpecGuard is RbacGuard before the   *)
(* routes of AgentsController, and SpecStream is ChatGateway serving       *)
(* streamChat requests through ChatService.  Each specification leaves the *)
(* state of the other components at rest.                                  *)
(***************************************************************************)
EXTENDS Naturals, Sequences, FiniteSets

\* ------------------------------------------------------------ bounds
\* Tool-call requests the model may emit over one run (all rounds together).
MaxRequests == 2
\* Largest maxSteps stored on an agent (0 stands for an absent value).
MaxAgentSteps == 2

\* ------------------------------------------------------------ constants
\* agent.maxSteps || 10
DefaultMaxSteps == 10
\* doc.content.substring(0, 1000)
SnippetLimit == 1000
\* findMany({..., take: 5})
TakeLimit == 5

\* ------------------------------------------------------------ values
Undefined == <<"#undefined">>

PlanningModes == {"single_step", "loop_with_limits", "plan_and_execute"}

\* The tools the model may name, and the executors the caller supplies.
ToolNames == {"lookup_ip", "query_siem"}
ExecutorSets == {{}, {"lookup_ip"}}

\* What an executor may return, and the messages it may throw with.
Outputs == {<<"8.8.8.8">>}
ErrorMessages == {<<"timeout">>}

\* content and usage of a model response.
Replies ==
    { [content |-> <<"pong">>, inputTokens |-> 1, outputTokens |-> 2],
      [content |-> <<"more">>, inputTokens |-> 3, outputTokens |-> 1] }

\* A tool-call request as the model emits it: function.name and whether
\* function.arguments is a string JSON.parse accepts (OpenAIProvider hands
\* on the string the model wrote).  The id is given by
\* the position of the request in the run (ids are unique).
ToolCallKinds == [name : ToolNames, argsValid : BOOLEAN]

InputText == <<"ping">>

Contains(text, token) == \E i \in DOMAIN text : text[i] = token

\* ------------------------------------------------------------ messages
Message(role, content, tool_calls, tool_call_id) ==
    [role |-> role, content |-> content, tool_calls |-> tool_calls,
     tool_call_id |-> tool_call_id]

UserMessage(text) == Message("user", text, <<>>, 0)

\* previousMessages as the caller passes it: absent, or a list it owns.
PreviousMessageOptions ==
    { [given |-> FALSE, list |-> <<>>],
      [given |-> TRUE, list |-> <<UserMessage(<<"earlier">>)>>] }

\* || 'You are a helpful AI assistant for SecOps.'
DefaultSystemPrompt == <<"You are a helpful AI assistant for SecOps.">>
\* || 'claude-3-5-sonnet'
DefaultModelAlias == <<"claude-3-5-sonnet">>

\* The context documents and memories retrieveContext finds for the agent.
\* A text that is only measured is given by its number of characters
\* (0: empty or null).
ContextStores ==
    { [documents |-> <<>>, memories |-> <<>>],
      [documents |-> << [title |-> "runbook", content |-> 1500],
                        [title |-> "blank", content |-> 0] >>,
       memories |-> << [key |-> "note", value |-> 1200] >>] }

\* What storage holds for an agent besides its strategy: the active prompt
\* version and the model alias (Undefined: none), and its context.
Configurations ==
    { [prompt |-> <<"triage-v1">>, defaultModelAlias |-> <<"gpt-4">>,
       context |-> CHOOSE c \in ContextStores : c.documents # <<>>],
      [prompt |-> Undefined, defaultModelAlias |-> <<"gpt-4">>,
       context |-> CHOOSE c \in ContextStores : c.documents = <<>>],
      [prompt |-> <<"triage-v1">>, defaultModelAlias |-> Undefined,
       context |-> CHOOSE c \in ContextStores : c.documents = <<>>] }

\* The agent as prisma.agent.findUnique resolved (const agent), or none:
\* prompt is systemPrompts[0]?.prompt, the active version at that moment.
NoAgent ==
    [found |-> FALSE, planningMode |-> "single_step", maxSteps |-> 0,
     prompt |-> Undefined, defaultModelAlias |-> Undefined]
Agents ==
    {NoAgent} \cup
    [found : {TRUE}, planningMode : PlanningModes, maxSteps : 0..MaxAgentSteps,
     prompt : {c.prompt : c \in Configurations},
     defaultModelAlias : {c.defaultModelAlias : c \in Configurations}]

NoResult ==
    [returned |-> FALSE, output |-> Undefined, toolCallsExecuted |-> 0,
     steps |-> <<>>,
     usage |-> [inputTokens |-> 0, outputTokens |-> 0, totalTokens |-> 0]]

VARIABLES
    agent,              \* execute: const agent, as findUnique resolved
    activePrompt,       \* storage: the agent's active prompt version now
    contextStore,       \* storage: the agent's documents and memories
    systemPrompt,       \* execute: enhancedSystemPrompt
    modelAlias,         \* execute: const modelAlias
    retrievals,         \* history: every retrieval query made
    llm,                \* what the model behind llmService.generate may answer
    systemPrompts,      \* AgentsService: the rows of agentSystemPrompt
    activations,        \* AgentsService: the activateSystemPrompt calls
    agentRows,          \* AgentsService: the rows of agent
    chats,              \* ChatService: the rows of chat, with their events
    processing,         \* ChatService: the processMessage call under way
    runs,               \* history: every agentExecutor.execute call of ChatService
    reads,              \* history: whose data was handed to whom
    httpRequest,        \* RbacGuard: the request canActivate is judging
    guard,              \* RbacGuard: where canActivate is, and its verdict
    stream,             \* ChatGateway: the streamChat request under way
    emitted,            \* history: the events emitted for each streamChat request
    toolExecutors,      \* names of options.toolExecutors
    previousMessages,   \* the caller's previousMessages list
    pc,                 \* where the run is
    maxSteps,           \* execute: const maxSteps
    messages,           \* options.messages / currentMessages of the strategy
    iteration,          \* executeLoop: iteration
    totalInputTokens,   \* executeLoop: totalInputTokens
    totalOutputTokens,  \* executeLoop: totalOutputTokens
    toolCallsExecuted,  \* toolCallsExecuted of the running strategy
    finalOutput,        \* executeLoop: finalOutput / executeSingleStep: output
    steps,              \* the strategy's step trace
    response,           \* the latest response of llmService.generate
    callIndex,          \* executeToolCalls: position in toolCalls
    results,            \* executeToolCalls: results
    calls,              \* history: every llmService.generate call made
    invocations,        \* history: every executor.execute call made
    result,             \* what execute resolved with
    error               \* what execute rejected with

\* what the start of execute fixes for the whole run
started == <<contextStore, systemPrompt, modelAlias, retrievals>>

\* the state of the services outside the executor
promptVars == <<systemPrompts, activations>>
chatVars == <<agentRows, chats, processing, runs, reads>>
guardVars == <<httpRequest, guard>>
gatewayVars == <<stream, emitted>>
elsewhere == <<promptVars, chatVars, guardVars, gatewayVars>>

\* no processMessage call is under way
NotProcessing == [chatId |-> 0, at |-> "none"]

\* no request is before the guard
NoRequest ==
    [route |-> "none", user |-> "none", params |-> "none", query |-> "none",
     body |-> "none"]
NotJudging == [at |-> "none", index |-> 0]
GuardAtRest == httpRequest = NoRequest /\ guard = NotJudging

\* no streamChat request has been received
NoStream == [at |-> "none", chatId |-> 0, agentId |-> 0, output |-> 0, chunks |-> 0]
GatewayAtRest == stream = NoStream /\ emitted = <<>>

\* AgentsService and ChatService have served nothing yet
PromptsAtRest == systemPrompts = <<>> /\ activations = <<>>
ChatAtRest ==
    /\ agentRows = <<>>
    /\ chats = <<>>
    /\ processing = NotProcessing
    /\ runs = <<>>
    /\ reads = {}

\* the state of one run of the executor
runVars ==
    <<llm, agent, activePrompt, started, toolExecutors, previousMessages, pc,
      maxSteps, messages, iteration, totalInputTokens, totalOutputTokens,
      toolCallsExecuted, finalOutput, steps, response, callIndex, results,
      calls, invocations, result, error>>

vars == <<runVars, elsewhere>>

\* ------------------------------------------------------------ helpers
\* const maxSteps = agent.maxSteps || 10
EffectiveMaxSteps(stored) == IF stored = 0 THEN DefaultMaxSteps ELSE stored

\* agent.systemPrompts[0]?.prompt || 'You are a helpful AI assistant for SecOps.'
ResolveSystemPrompt(stored) ==
    IF stored = Undefined THEN DefaultSystemPrompt ELSE stored

\* A slip: a missing alias is handed on as it is.
ResolveModelAliasAsStored(stored) == stored

\* agent.defaultModelAlias || 'claude-3-5-sonnet'
ResolveModelAlias(stored) ==
    IF stored = Undefined THEN DefaultModelAlias ELSE stored

\* findMany({..., take: n}): the first n rows
Take(rows, n) == SubSeq(rows, 1, IF Len(rows) < n THEN Len(rows) ELSE n)

\* text.substring(0, n), on the number of characters of the text
Substring(chars, n) == IF chars < n THEN chars ELSE n

\* `[Document: ${doc.title}]\n${doc.content.substring(0, 1000)}`
\* chars is the number of characters of the source text the snippet carries.
DocumentSnippet(doc) ==
    [label |-> "Document", name |-> doc.title,
     chars |-> Substring(doc.content, SnippetLimit)]

\* `[Memory: ${memory.key}]\n${memory.value}`
MemorySnippet(memory) ==
    [label |-> "Memory", name |-> memory.key, chars |-> memory.value]

RECURSIVE DocumentSnippets(_)
\* for (const doc of contextDocs) { if (doc.content) contexts.push(...) }
DocumentSnippets(docs) ==
    IF docs = <<>> THEN <<>>
    ELSE (IF Head(docs).content # 0 THEN <<DocumentSnippet(Head(docs))>> ELSE <<>>)
         \o DocumentSnippets(Tail(docs))

\* retrieveContext: the snippets of the documents, then those of the memories
RetrieveContext(store) ==
    DocumentSnippets(Take(store.documents, TakeLimit))
    \o [i \in 1..Len(Take(store.memories, TakeLimit)) |->
           MemorySnippet(store.memories[i])]

\* the two findMany queries of retrieveContext
RetrievalQueries == <<"contextDocument.findMany", "agentMemory.findMany">>

\* buildEnhancedSystemPrompt: the base prompt alone, or followed by the
\* "Relevant Context" section of the snippets; instructions is what a
\* strategy appends after it.
BuildEnhancedSystemPrompt(basePrompt, contexts) ==
    IF Len(contexts) = 0
    THEN [base |-> basePrompt, contexts |-> <<>>, instructions |-> <<>>]
    ELSE [base |-> basePrompt, contexts |-> contexts, instructions |-> <<>>]

\* `${options.systemPrompt}\n\nCreate a step-by-step plan ...`
PlanningPrompt(prompt) ==
    [prompt EXCEPT !.instructions = <<"Create a step-by-step plan">>]

NoSystemPrompt == [base |-> Undefined, contexts |-> <<>>, instructions |-> <<>>]

\* const messages = options.previousMessages || []; messages.push({role: 'user', ...})
InitialMessages(previous, input) == Append(previous.list, UserMessage(input))

\* push acts on the caller's own array when one was passed
AfterPush(previous, input) ==
    IF previous.given
    THEN [given |-> TRUE, list |-> Append(previous.list, UserMessage(input))]
    ELSE previous

\* A slip: the tool branch is entered whatever the response holds.
HasToolCallsAlways(resp) == TRUE

\* response.toolCalls && response.toolCalls.length > 0
HasToolCalls(resp) == Len(resp.toolCalls) > 0

\* A slip: <= for <, one round too many.
LoopContinueInclusive(i, limit) == i <= limit

\* A slip: the loop goes on for as long as the model asks for tools.
LoopContinueAlways(i, limit) == i >= 0

\* while (iteration < options.maxSteps)
LoopContinue(i, limit) == i < limit

\* A slip: = for +=, the total is overwritten by the last round.
AddUsageOverwrite(total, tokens) == tokens

\* totalInputTokens += response.usage.inputTokens (and the output tokens alike)
AddUsage(total, tokens) == total + tokens

\* JSON.parse(toolCall.function.arguments) returns (true) or throws (false)
ParseOk(toolCall) == toolCall.argsValid

\* toolExecutors.find((e) => e.name === toolName)
ExecutorFound(executors, toolName) == toolName \in executors

\* results.push({toolCallId, toolName, error: `Tool executor not found: ${toolName}`})
NotFoundResult(toolCall) ==
    [toolCallId |-> toolCall.id, toolName |-> toolCall.name, hasInput |-> FALSE,
     output |-> Undefined,
     error |-> <<"Tool executor not found: ", toolCall.name>>]

\* results.push({toolCallId, toolName, input: toolInput, output})
SuccessResult(toolCall, output) ==
    [toolCallId |-> toolCall.id, toolName |-> toolCall.name, hasInput |-> TRUE,
     output |-> output, error |-> Undefined]

\* results.push({toolCallId, toolName, input: toolInput, error: error.message})
ErrorResult(toolCall, message) ==
    [toolCallId |-> toolCall.id, toolName |-> toolCall.name, hasInput |-> TRUE,
     output |-> Undefined, error |-> message]

\* JSON.stringify(value): undefined for undefined, else the JSON text of value
JsonStringify(value) ==
    IF value = Undefined THEN Undefined ELSE <<"\"">> \o value \o <<"\"">>

\* {role: 'tool', content: JSON.stringify(result.output), tool_call_id: result.toolCallId}
ToolMessage(res) == Message("tool", JsonStringify(res.output), <<>>, res.toolCallId)

\* A slip: the results are fed back last first.
ToolMessagesReversed(rs) == [i \in 1..Len(rs) |-> ToolMessage(rs[Len(rs) + 1 - i])]

ToolMessages(rs) == [i \in 1..Len(rs) |-> ToolMessage(rs[i])]

\* {role: 'assistant', content: response.content, tool_calls: response.toolCalls}
AssistantMessage(resp) == Message("assistant", resp.content, resp.toolCalls, 0)

\* A slip: the plan is appended as if the user had written it.
PlanMessageAsUser(resp) ==
    Message("user",
            <<"Plan:">> \o resp.content \o <<"Now executing this plan...">>, <<>>, 0)

\* {role: 'assistant', content: `Plan:\n${planResponse.content}\n\nNow executing this plan...`}
PlanMessage(resp) ==
    Message("assistant",
            <<"Plan:">> \o resp.content \o <<"Now executing this plan...">>, <<>>, 0)

LlmStep(resp) == [type |-> "llm_call", output |-> resp.content, data |-> <<>>]
ToolStep(rs) == [type |-> "tool_call", output |-> Undefined, data |-> rs]

\* executeSingleStep: usage: response.usage
SingleStepUsage(first, final) ==
    [inputTokens |-> first.usage.inputTokens, outputTokens |-> first.usage.outputTokens]

\* execute, single_step branch: the totals start at 0 and take result.usage
ExecuteSingleResult(output, executed, trace, usage) ==
    [returned |-> TRUE, output |-> output, toolCallsExecuted |-> 0 + executed,
     steps |-> trace,
     usage |-> [inputTokens |-> 0 + usage.inputTokens,
                outputTokens |-> 0 + usage.outputTokens,
                totalTokens |-> (0 + usage.inputTokens) + (0 + usage.outputTokens)]]

\* executeLoop: return {output: finalOutput, toolCallsExecuted, steps, usage}
LoopResult(output, executed, trace, inTokens, outTokens) ==
    [returned |-> TRUE, output |-> output, toolCallsExecuted |-> executed,
     steps |-> trace,
     usage |-> [inputTokens |-> inTokens, outputTokens |-> outTokens,
                totalTokens |-> inTokens + outTokens]]

\* ------------------------------------------------------------ environment
RECURSIVE TotalRequested(_)
TotalRequested(cs) ==
    IF cs = <<>> THEN 0
    ELSE Len(cs[Len(cs)].response.toolCalls) + TotalRequested(SubSeq(cs, 1, Len(cs) - 1))

\* The model behind llmService.generate: the replies it may give, the tool
\* calls it may request, how many in one response and how many over the run.
\* The full model draws on everything within MaxRequests; the insistent model
\* asks for one more tool call in every round, beyond the default step limit.
FullModel ==
    [replies |-> Replies, kinds |-> ToolCallKinds, width |-> MaxRequests,
     budget |-> MaxRequests]
InsistentModel ==
    [replies |-> { r \in Replies : r.content = <<"more">> },
     kinds |-> { k \in ToolCallKinds : k.name = "lookup_ip" }, width |-> 1,
     budget |-> DefaultMaxSteps + 1]

\* the requests left for one response
Remaining ==
    IF llm.budget - TotalRequested(calls) < llm.width
    THEN llm.budget - TotalRequested(calls) ELSE llm.width

ToolCallLists(n) == UNION { [1..k -> llm.kinds] : k \in 0..n }

WithIds(kinds, base) ==
    [i \in 1..Len(kinds) |->
        [id |-> base + i, name |-> kinds[i].name, argsValid |-> kinds[i].argsValid]]

NoResponse ==
    [content |-> Undefined, toolCalls |-> <<>>,
     usage |-> [inputTokens |-> 0, outputTokens |-> 0]]

\* What llmService.generate may resolve with.  Tool calls come back only when
\* tools were offered; the run's requests are bounded by the model's budget.
Responses(tools) ==
    { [content |-> r.content,
       toolCalls |-> WithIds(k, TotalRequested(calls)),
       usage |-> [inputTokens |-> r.inputTokens, outputTokens |-> r.outputTokens]] :
      r \in llm.replies,
      k \in IF tools THEN ToolCallLists(Remaining) ELSE {<<>>} }

\* A slip: the prompt is built again from the storage at every call.
CallPromptReread(kind) ==
    LET fresh == BuildEnhancedSystemPrompt(ResolveSystemPrompt(activePrompt),
                                           systemPrompt.contexts)
    IN IF kind = "planning" THEN PlanningPrompt(fresh) ELSE fresh

\* systemPrompt: options.systemPrompt at every generate of the strategies,
\* planningPrompt at the planning generate
CallPrompt(kind) ==
    IF kind = "planning" THEN PlanningPrompt(systemPrompt) ELSE systemPrompt

\* One llmService.generate call: its request, how it ended, and (history)
\* the version active in storage when it was made.
CallRecord(prompt, tools, msgs, ok, resp) ==
    [prompt |-> prompt, tools |-> tools, messages |-> msgs, ok |-> ok,
     response |-> resp, systemPrompt |-> CallPrompt(prompt),
     modelAlias |-> modelAlias, stored |-> activePrompt]

\* ------------------------------------------------------------ initial state
\* execute has been called: the caller's options and what storage holds
RunInit ==
    /\ agent \in Agents
    /\ activePrompt = agent.prompt
    /\ \/ ~agent.found /\ contextStore \in ContextStores
       \/ \E c \in Configurations :
            /\ agent.found
            /\ agent.prompt = c.prompt
            /\ agent.defaultModelAlias = c.defaultModelAlias
            /\ contextStore = c.context
    /\ systemPrompt = NoSystemPrompt
    /\ modelAlias = Undefined
    /\ retrievals = <<>>
    /\ toolExecutors \in ExecutorSets
    /\ previousMessages \in PreviousMessageOptions
    /\ pc = "idle"
    /\ maxSteps = 0
    /\ messages = <<>>
    /\ iteration = 0
    /\ totalInputTokens = 0
    /\ totalOutputTokens = 0
    /\ toolCallsExecuted = 0
    /\ finalOutput = <<>>
    /\ steps = <<>>
    /\ response = NoResponse
    /\ callIndex = 0
    /\ results = <<>>
    /\ calls = <<>>
    /\ invocations = <<>>
    /\ result = NoResult
    /\ error = "none"
    /\ PromptsAtRest
    /\ ChatAtRest
    /\ GuardAtRest
    /\ GatewayAtRest

Init == RunInit /\ llm = FullModel

\* ------------------------------------------------------------ execute
\* A slip: the context is retrieved before the agent is looked at.
ExecuteAgentNotFoundLate ==
    /\ pc = "idle"
    /\ ~agent.found
    /\ retrievals' = retrievals \o RetrievalQueries
    /\ pc' = "rejected"
    /\ error' = "Agent not found"
    /\ UNCHANGED <<elsewhere, llm, agent, activePrompt, contextStore, systemPrompt, modelAlias,
                   toolExecutors, previousMessages, maxSteps, messages,
                   iteration, totalInputTokens, totalOutputTokens,
                   toolCallsExecuted, finalOutput, steps, response, callIndex,
                   results, calls, invocations, result>>

\* execute: findUnique resolved with null: throw new Error('Agent not found')
ExecuteAgentNotFound ==
    /\ pc = "idle"
    /\ ~agent.found
    /\ pc' = "rejected"
    /\ error' = "Agent not found"
    /\ UNCHANGED <<elsewhere, llm, agent, activePrompt, started, toolExecutors,
                   previousMessages, maxSteps, messages,
                   iteration, totalInputTokens, totalOutputTokens,
                   toolCallsExecuted, finalOutput, steps, response, callIndex,
                   results, calls, invocations, result>>

\* execute: the agent is found; prompt, alias and limits are read, the context
\* is retrieved and built into the prompt, the user input is pushed and the
\* strategy of agent.planningMode is entered (up to its first generate).
Execute ==
    /\ pc = "idle"
    /\ agent.found
    /\ modelAlias' = ResolveModelAlias(agent.defaultModelAlias)
    /\ maxSteps' = EffectiveMaxSteps(agent.maxSteps)
    /\ retrievals' = retrievals \o RetrievalQueries
    /\ systemPrompt' = BuildEnhancedSystemPrompt(ResolveSystemPrompt(agent.prompt),
                                                 RetrieveContext(contextStore))
    /\ messages' = InitialMessages(previousMessages, InputText)
    /\ previousMessages' = AfterPush(previousMessages, InputText)
    /\ pc' = CASE agent.planningMode = "single_step" -> "single_first"
               [] agent.planningMode = "loop_with_limits" -> "loop"
               [] OTHER -> "plan"
    /\ UNCHANGED <<elsewhere, llm, agent, activePrompt, contextStore, toolExecutors, iteration,
                   totalInputTokens, totalOutputTokens, toolCallsExecuted,
                   finalOutput, steps, response, callIndex, results, calls,
                   invocations, result, error>>

\* AgentsService.activateSystemPrompt, served for another request while the
\* run is under way: the active version is archived and another one becomes
\* the agent's active version.
ActivateSystemPrompt ==
    /\ agent.found
    /\ pc \notin {"idle", "done", "rejected"}
    /\ activePrompt = <<"triage-v1">>
    /\ activePrompt' = <<"triage-v2">>
    /\ UNCHANGED <<elsewhere, llm, agent, started, toolExecutors, previousMessages, pc, maxSteps,
                   messages, iteration, totalInputTokens, totalOutputTokens,
                   toolCallsExecuted, finalOutput, steps, response, callIndex,
                   results, calls, invocations, result, error>>

\* ------------------------------------------------------------ executeSingleStep
\* The first generate (tools offered) resolves.  With no tool calls the
\* strategy returns and execute wraps the result.
SingleFirstGenerate ==
    /\ pc = "single_first"
    /\ \E resp \in Responses(TRUE) :
        /\ response' = resp
        /\ calls' = Append(calls, CallRecord("system", TRUE, messages, TRUE, resp))
        /\ steps' = Append(steps, LlmStep(resp))
        /\ finalOutput' = resp.content
        /\ IF HasToolCalls(resp)
           THEN /\ pc' = "tools"
                /\ callIndex' = 1
                /\ results' = <<>>
                /\ result' = result
           ELSE /\ pc' = "done"
                /\ result' = ExecuteSingleResult(resp.content, 0, steps',
                                                 SingleStepUsage(resp, resp))
                /\ UNCHANGED <<callIndex, results>>
    /\ UNCHANGED <<elsewhere, llm, agent, activePrompt, started, toolExecutors,
                   previousMessages, maxSteps, messages,
                   iteration, totalInputTokens, totalOutputTokens,
                   toolCallsExecuted, invocations, error>>

\* executeToolCalls has returned: the tool step is recorded and
\* messagesWithToolResults is built for the second generate.
SingleToolsDone ==
    /\ pc = "tools"
    /\ agent.planningMode = "single_step"
    /\ callIndex > Len(response.toolCalls)
    /\ steps' = Append(steps, ToolStep(results))
    /\ toolCallsExecuted' = Len(response.toolCalls)
    /\ messages' = messages \o <<AssistantMessage(response)>> \o ToolMessages(results)
    /\ pc' = "single_final"
    /\ UNCHANGED <<elsewhere, llm, agent, activePrompt, started, toolExecutors,
                   previousMessages, maxSteps, iteration,
                   totalInputTokens, totalOutputTokens, finalOutput, response,
                   callIndex, results, calls, invocations, result, error>>

\* The second generate (no tools) resolves; executeSingleStep returns and
\* execute wraps the result.
SingleFinalGenerate ==
    /\ pc = "single_final"
    /\ \E final \in Responses(FALSE) :
        /\ calls' = Append(calls, CallRecord("system", FALSE, messages, TRUE, final))
        /\ finalOutput' = final.content
        /\ steps' = Append(steps, LlmStep(final))
        /\ result' = ExecuteSingleResult(final.content, toolCallsExecuted, steps',
                                         SingleStepUsage(response, final))
    /\ pc' = "done"
    /\ UNCHANGED <<elsewhere, llm, agent, activePrompt, started, toolExecutors,
                   previousMessages, maxSteps, messages,
                   iteration, totalInputTokens, totalOutputTokens,
                   toolCallsExecuted, response, callIndex, results, invocations,
                   error>>

\* ------------------------------------------------------------ executeLoop
\* One pass of the while loop up to its next await: the generate resolves;
\* without tool calls the loop breaks and the strategy returns.
LoopGenerate ==
    /\ pc = "loop"
    /\ LoopContinue(iteration, maxSteps)
    /\ iteration' = iteration + 1
    /\ \E resp \in Responses(TRUE) :
        /\ response' = resp
        /\ calls' = Append(calls, CallRecord("system", TRUE, messages, TRUE, resp))
        /\ totalInputTokens' = AddUsage(totalInputTokens, resp.usage.inputTokens)
        /\ totalOutputTokens' = AddUsage(totalOutputTokens, resp.usage.outputTokens)
        /\ steps' = Append(steps, LlmStep(resp))
        /\ finalOutput' = resp.content
        /\ IF HasToolCalls(resp)
           THEN /\ pc' = "tools"
                /\ callIndex' = 1
                /\ results' = <<>>
                /\ result' = result
           ELSE /\ pc' = "done"
                /\ result' = LoopResult(finalOutput', toolCallsExecuted, steps',
                                        totalInputTokens', totalOutputTokens')
                /\ UNCHANGED <<callIndex, results>>
    /\ UNCHANGED <<elsewhere, llm, agent, activePrompt, started, toolExecutors,
                   previousMessages, maxSteps, messages,
                   toolCallsExecuted, invocations, error>>

\* The while condition is false: the strategy returns what it has.
LoopLimitReached ==
    /\ pc = "loop"
    /\ ~LoopContinue(iteration, maxSteps)
    /\ pc' = "done"
    /\ result' = LoopResult(finalOutput, toolCallsExecuted, steps,
                            totalInputTokens, totalOutputTokens)
    /\ UNCHANGED <<elsewhere, llm, agent, activePrompt, started, toolExecutors,
                   previousMessages, maxSteps, messages,
                   iteration, totalInputTokens, totalOutputTokens,
                   toolCallsExecuted, finalOutput, steps, response, callIndex,
                   results, calls, invocations, error>>

\* (variant: only the requests whose executor was invoked are counted)
LoopToolsDoneCountsInvoked ==
    /\ pc = "tools"
    /\ agent.planningMode # "single_step"
    /\ callIndex > Len(response.toolCalls)
    /\ toolCallsExecuted' =
        toolCallsExecuted + Cardinality({k \in DOMAIN results : results[k].hasInput})
    /\ steps' = Append(steps, ToolStep(results))
    /\ messages' = messages \o <<AssistantMessage(response)>> \o ToolMessages(results)
    /\ pc' = "loop"
    /\ UNCHANGED <<elsewhere, llm, agent, activePrompt, started, toolExecutors,
                   previousMessages, maxSteps, iteration,
                   totalInputTokens, totalOutputTokens, finalOutput, response,
                   callIndex, results, calls, invocations, result, error>>

\* executeToolCalls has returned inside the loop: count, trace, and the
\* assistant and tool messages are pushed onto currentMessages.
LoopToolsDone ==
    /\ pc = "tools"
    /\ agent.planningMode # "single_step"
    /\ callIndex > Len(response.toolCalls)
    /\ toolCallsExecuted' = toolCallsExecuted + Len(response.toolCalls)
    /\ steps' = Append(steps, ToolStep(results))
    /\ messages' = messages \o <<AssistantMessage(response)>> \o ToolMessages(results)
    /\ pc' = "loop"
    /\ UNCHANGED <<elsewhere, llm, agent, activePrompt, started, toolExecutors,
                   previousMessages, maxSteps, iteration,
                   totalInputTokens, totalOutputTokens, finalOutput, response,
                   callIndex, results, calls, invocations, result, error>>

\* ------------------------------------------------------------ executePlanAndExecute
\* The planning generate (planning prompt, no tools) resolves; its step is
\* kept in a local array only, and executeLoop starts on the extended list.
PlanGenerate ==
    /\ pc = "plan"
    /\ \E plan \in Responses(FALSE) :
        /\ calls' = Append(calls, CallRecord("planning", FALSE, messages, TRUE, plan))
        /\ messages' = Append(messages, PlanMessage(plan))
    /\ pc' = "loop"
    /\ UNCHANGED <<elsewhere, llm, agent, activePrompt, started, toolExecutors,
                   previousMessages, maxSteps, iteration,
                   totalInputTokens, totalOutputTokens, toolCallsExecuted,
                   finalOutput, steps, response, callIndex, results, invocations,
                   result, error>>

\* ------------------------------------------------------------ generate fails
\* A slip: the failure is caught and the strategy returns what it has so far.
GenerateFailsSwallowed ==
    /\ pc \in {"single_first", "single_final", "loop", "plan"}
    /\ pc = "loop" => LoopContinue(iteration, maxSteps)
    /\ iteration' = IF pc = "loop" THEN iteration + 1 ELSE iteration
    /\ calls' = Append(calls,
                       CallRecord(IF pc = "plan" THEN "planning" ELSE "system",
                                  pc \in {"single_first", "loop"}, messages, FALSE,
                                  NoResponse))
    /\ pc' = "done"
    /\ result' = LoopResult(finalOutput, toolCallsExecuted, steps,
                            totalInputTokens, totalOutputTokens)
    /\ UNCHANGED <<elsewhere, llm, agent, activePrompt, started, toolExecutors,
                   previousMessages, maxSteps, messages,
                   totalInputTokens, totalOutputTokens, toolCallsExecuted,
                   finalOutput, steps, response, callIndex, results, invocations,
                   error>>

\* llmService.generate rejects at any of its call sites: nothing catches it,
\* so execute rejects.
GenerateFails ==
    /\ pc \in {"single_first", "single_final", "loop", "plan"}
    /\ pc = "loop" => LoopContinue(iteration, maxSteps)
    /\ iteration' = IF pc = "loop" THEN iteration + 1 ELSE iteration
    /\ calls' = Append(calls,
                       CallRecord(IF pc = "plan" THEN "planning" ELSE "system",
                                  pc \in {"single_first", "loop"}, messages, FALSE,
                                  NoResponse))
    /\ pc' = "rejected"
    /\ error' = "ModelGenerationError"
    /\ UNCHANGED <<elsewhere, llm, agent, activePrompt, started, toolExecutors,
                   previousMessages, maxSteps, messages,
                   totalInputTokens, totalOutputTokens, toolCallsExecuted,
                   finalOutput, steps, response, callIndex, results, invocations,
                   result>>

\* ------------------------------------------------------------ executeToolCalls
\* (variant: the requests of a round are taken from the last to the first)
CurrentToolCallFromEnd == response.toolCalls[Len(response.toolCalls) + 1 - callIndex]

\* for (const toolCall of toolCalls)
CurrentToolCall == response.toolCalls[callIndex]

AtToolCall == pc = "tools" /\ callIndex <= Len(response.toolCalls)

\* JSON.parse(toolCall.function.arguments) throws: it stands outside the try,
\* so the error leaves executeToolCalls, the strategy and execute.
ParseArgumentsThrows ==
    /\ AtToolCall
    /\ ~ParseOk(CurrentToolCall)
    /\ pc' = "rejected"
    /\ error' = "SyntaxError"
    /\ UNCHANGED <<elsewhere, llm, agent, activePrompt, started, toolExecutors,
                   previousMessages, maxSteps, messages,
                   iteration, totalInputTokens, totalOutputTokens,
                   toolCallsExecuted, finalOutput, steps, response, callIndex,
                   results, calls, invocations, result>>

\* if (!executor) { results.push({... error}); continue; }
ExecutorNotFound ==
    /\ AtToolCall
    /\ ParseOk(CurrentToolCall)
    /\ ~ExecutorFound(toolExecutors, CurrentToolCall.name)
    /\ results' = Append(results, NotFoundResult(CurrentToolCall))
    /\ callIndex' = callIndex + 1
    /\ UNCHANGED <<elsewhere, llm, agent, activePrompt, started, toolExecutors,
                   previousMessages, pc, maxSteps, messages,
                   iteration, totalInputTokens, totalOutputTokens,
                   toolCallsExecuted, finalOutput, steps, response, calls,
                   invocations, result, error>>

\* await executor.execute(toolInput, context) is issued
InvokeExecutor ==
    /\ AtToolCall
    /\ ParseOk(CurrentToolCall)
    /\ ExecutorFound(toolExecutors, CurrentToolCall.name)
    /\ invocations' = Append(invocations, CurrentToolCall.id)
    /\ pc' = "executing"
    /\ UNCHANGED <<elsewhere, llm, agent, activePrompt, started, toolExecutors,
                   previousMessages, maxSteps, messages,
                   iteration, totalInputTokens, totalOutputTokens,
                   toolCallsExecuted, finalOutput, steps, response, callIndex,
                   results, calls, result, error>>

\* the executor resolves with an output
ExecutorReturns ==
    /\ pc = "executing"
    /\ \E output \in Outputs :
        results' = Append(results, SuccessResult(CurrentToolCall, output))
    /\ callIndex' = callIndex + 1
    /\ pc' = "tools"
    /\ UNCHANGED <<elsewhere, llm, agent, activePrompt, started, toolExecutors,
                   previousMessages, maxSteps, messages,
                   iteration, totalInputTokens, totalOutputTokens,
                   toolCallsExecuted, finalOutput, steps, response, calls,
                   invocations, result, error>>

\* A slip: no try/catch around the executor, its error leaves execute.
ExecutorThrowsUncaught ==
    /\ pc = "executing"
    /\ pc' = "rejected"
    /\ error' = "ToolExecutionError"
    /\ UNCHANGED <<elsewhere, llm, agent, activePrompt, started, toolExecutors,
                   previousMessages, maxSteps, messages,
                   iteration, totalInputTokens, totalOutputTokens,
                   toolCallsExecuted, finalOutput, steps, response, callIndex,
                   results, calls, invocations, result>>

\* the executor throws or rejects: catch (error) { results.push({... error.message}) }
ExecutorThrows ==
    /\ pc = "executing"
    /\ \E message \in ErrorMessages :
        results' = Append(results, ErrorResult(CurrentToolCall, message))
    /\ callIndex' = callIndex + 1
    /\ pc' = "tools"
    /\ UNCHANGED <<elsewhere, llm, agent, activePrompt, started, toolExecutors,
                   previousMessages, maxSteps, messages,
                   iteration, totalInputTokens, totalOutputTokens,
                   toolCallsExecuted, finalOutput, steps, response, calls,
                   invocations, result, error>>

\* ------------------------------------------------------------ specification
\* the steps of the run itself
RunNext ==
    \/ ExecuteAgentNotFound
    \/ Execute
    \/ SingleFirstGenerate
    \/ SingleToolsDone
    \/ SingleFinalGenerate
    \/ LoopGenerate
    \/ LoopLimitReached
    \/ LoopToolsDone
    \/ PlanGenerate
    \/ GenerateFails
    \/ ParseArgumentsThrows
    \/ ExecutorNotFound
    \/ InvokeExecutor
    \/ ExecutorReturns
    \/ ExecutorThrows

Next == RunNext \/ ActivateSystemPrompt

Spec == Init /\ [][Next]_vars

\* The run facing the insistent model.  Every collaborator call that is
\* pending eventually resolves or rejects, and the code between two awaits
\* runs: a step of the run that stays possible is eventually taken.
\* The runs under the default step limit are the long ones; they are taken
\* with no executors supplied, one behaviour per round rather than two.
FairInit ==
    /\ RunInit
    /\ llm = InsistentModel
    /\ agent.found /\ agent.maxSteps = 0 => toolExecutors = {}

SpecFair == FairInit /\ [][Next]_vars /\ WF_vars(RunNext)

\* ------------------------------------------------------------ properties
Range(s) == { s[i] : i \in DOMAIN s }

RECURSIVE SumInput(_)
SumInput(cs) ==
    IF cs = <<>> THEN 0
    ELSE cs[Len(cs)].response.usage.inputTokens + SumInput(SubSeq(cs, 1, Len(cs) - 1))

RECURSIVE SumOutput(_)
SumOutput(cs) ==
    IF cs = <<>> THEN 0
    ELSE cs[Len(cs)].response.usage.outputTokens + SumOutput(SubSeq(cs, 1, Len(cs) - 1))

Terminal == pc \in {"done", "rejected"}

\* the tool messages of a list that answer the request with this id
AnswersTo(msgs, id) ==
    { i \in DOMAIN msgs : msgs[i].role = "tool" /\ msgs[i].tool_call_id = id }

\* every token of part occurs in text
ContainsText(text, part) == \A j \in DOMAIN part : Contains(text, part[j])

\* C1: in a single_step run whose first model response holds no tool calls,
\* exactly one generate call is made, no executor is invoked, the run has
\* returned, its output is that call's content and toolCallsExecuted is 0.
C1_SingleStepNoTools ==
    ( /\ agent.planningMode = "single_step"
      /\ Len(calls) >= 1
      /\ calls[1].ok
      /\ calls[1].response.toolCalls = <<>> )
    => /\ Len(calls) = 1
       /\ invocations = <<>>
       /\ pc = "done"
       /\ result.returned
       /\ result.output = calls[1].response.content
       /\ result.toolCallsExecuted = 0

C1_Witness ==
    /\ agent.planningMode = "single_step"
    /\ pc = "done"
    /\ Len(calls) = 1
    /\ calls[1].response.toolCalls = <<>>
    /\ result.output = <<"pong">>
    /\ result.toolCallsExecuted = 0

\* C2: in a single_step run whose first model response requests N >= 1 tool
\* calls, the finished run has made exactly two generate calls, the second
\* with no tools offered; the result's toolCallsExecuted is N; and the second
\* call's messages hold exactly one tool message for each of the N requests.
C2_SingleStepWithTools ==
    ( /\ agent.planningMode = "single_step"
      /\ Len(calls) >= 1
      /\ calls[1].ok
      /\ Len(calls[1].response.toolCalls) >= 1 )
    => /\ Len(calls) <= 2
       /\ Terminal => Len(calls) = 2
       /\ Len(calls) = 2 =>
            /\ ~calls[2].tools
            /\ \A i \in DOMAIN calls[1].response.toolCalls :
                 Cardinality(AnswersTo(calls[2].messages,
                                       calls[1].response.toolCalls[i].id)) = 1
       /\ pc = "done" =>
            result.toolCallsExecuted = Len(calls[1].response.toolCalls)

\* C3: in a loop_with_limits run the number of generate calls never exceeds
\* maxSteps, and a response without tool calls is the last thing that happens:
\* it is the last call, the run has returned, and no generate call or executor
\* invocation follows.
C3_LoopStopped ==
    /\ agent.planningMode = "loop_with_limits"
    /\ \E i \in DOMAIN calls : calls[i].ok /\ calls[i].response.toolCalls = <<>>

C3_LoopWithinLimit ==
    /\ [](agent.planningMode = "loop_with_limits" =>
            /\ Len(calls) <= maxSteps
            /\ \A i \in DOMAIN calls :
                 (calls[i].ok /\ calls[i].response.toolCalls = <<>>) =>
                    (i = Len(calls) /\ pc = "done" /\ result.returned))
    /\ [][C3_LoopStopped => UNCHANGED <<calls, invocations>>]_vars

C3_Witness ==
    /\ agent.planningMode = "loop_with_limits"
    /\ pc = "done"
    /\ Len(calls) = 2
    /\ Len(calls) < maxSteps
    /\ calls[1].response.toolCalls # <<>>
    /\ calls[2].response.toolCalls = <<>>
    /\ invocations # <<>>

\* C4: a loop_with_limits run in which all maxSteps responses requested tool
\* calls does not fail: once over, it has returned, and its output is the
\* content of the last (maxSteps-th) response.
C4_SoftLimit ==
    ( /\ agent.planningMode = "loop_with_limits"
      /\ Terminal
      /\ Len(calls) = maxSteps
      /\ \A i \in DOMAIN calls : calls[i].ok /\ calls[i].response.toolCalls # <<>> )
    => /\ pc = "done"
       /\ result.returned
       /\ result.output = calls[maxSteps].response.content

\* C5: in every planning mode the returned usage.inputTokens and
\* usage.outputTokens are the sums of the token counts of all generate calls
\* of the run.
C5_UsageSumsAllCalls ==
    pc = "done" =>
        /\ result.usage.inputTokens = SumInput(calls)
        /\ result.usage.outputTokens = SumOutput(calls)

\* C6: in a loop_with_limits run the running token totals always equal the
\* sums of the usages of the rounds so far and never decrease, and the
\* returned totalTokens is the sum over all rounds of input + output tokens.
C6_LoopUsageAdditive ==
    /\ [](agent.planningMode = "loop_with_limits" =>
            /\ totalInputTokens = SumInput(calls)
            /\ totalOutputTokens = SumOutput(calls)
            /\ pc = "done" =>
                 /\ result.usage.inputTokens = SumInput(calls)
                 /\ result.usage.outputTokens = SumOutput(calls)
                 /\ result.usage.totalTokens = SumInput(calls) + SumOutput(calls))
    /\ [][agent.planningMode = "loop_with_limits" =>
            /\ totalInputTokens' >= totalInputTokens
            /\ totalOutputTokens' >= totalOutputTokens]_vars

C6_Witness ==
    /\ agent.planningMode = "loop_with_limits"
    /\ pc = "done"
    /\ Len(calls) = 3
    /\ calls[1].response.usage # calls[2].response.usage
    /\ result.usage.totalTokens = 10

\* a result of executeToolCalls that records a thrown executor error
Thrown(r) == r.hasInput /\ r.error # Undefined

\* C7: when the executor invoked for a request threw with message m, the
\* conversation holds a tool message for that request and its content is a
\* text containing m.
C7_ThrownErrorFedBack ==
    \A k \in DOMAIN steps :
        \A j \in DOMAIN steps[k].data :
            LET r == steps[k].data[j] IN
            Thrown(r) =>
                /\ AnswersTo(messages, r.toolCallId) # {}
                /\ \A i \in AnswersTo(messages, r.toolCallId) :
                     /\ messages[i].content # Undefined
                     /\ ContainsText(messages[i].content, r.error)

\* C8: a request whose tool name matches no supplied executor gets, once
\* executeToolCalls has handled it, exactly one result, which is an error
\* whose text contains the name; no executor is invoked for it and no
\* exception leaves executeToolCalls at it.
C8_ToolNotFound ==
    \A i \in DOMAIN response.toolCalls :
        LET request == response.toolCalls[i] IN
        request.name \notin toolExecutors =>
            /\ request.id \notin Range(invocations)
            /\ ~(pc = "rejected" /\ error = "SyntaxError" /\ callIndex = i)
            /\ i < callIndex =>
                 /\ Cardinality({ j \in DOMAIN results :
                                    results[j].toolCallId = request.id }) = 1
                 /\ results[i].error # Undefined
                 /\ Contains(results[i].error, request.name)

C10_FailedCall == \E i \in DOMAIN calls : ~calls[i].ok

C10_ModelFailureRejects ==
    /\ [](\A i \in DOMAIN calls :
            ~calls[i].ok =>
                /\ i = Len(calls)
                /\ pc = "rejected"
                /\ error = "ModelGenerationError"
                /\ ~result.returned)
    /\ [][C10_FailedCall => UNCHANGED <<calls, invocations, result>>]_vars

C10_Witness ==
    /\ pc = "rejected"
    /\ error = "ModelGenerationError"
    /\ Len(calls) = 2
    /\ calls[1].ok
    /\ ~calls[2].ok
    /\ invocations # <<>>
    /\ ~result.returned

\* C11: when the agent id is not in storage, execute rejects with
\* 'Agent not found' and has made no retrieval query, no generate call and
\* no executor invocation, and returns no result.
C11_AgentNotFoundRejectsFirst ==
    ~agent.found =>
        /\ retrievals = <<>>
        /\ calls = <<>>
        /\ invocations = <<>>
        /\ ~result.returned
        /\ pc \in {"idle", "rejected"}
        /\ pc = "rejected" => error = "Agent not found"

C11_Witness ==
    /\ ~agent.found
    /\ pc = "rejected"
    /\ error = "Agent not found"
    /\ contextStore.documents # <<>>

\* C12 as stated: a run on an agent without an active prompt or without a
\* model alias is rejected with no generate call made.
C12_ConfigurationError ==
    ( /\ agent.found
      /\ agent.prompt = Undefined \/ agent.defaultModelAlias = Undefined
      /\ pc # "idle" )
    => /\ pc = "rejected"
       /\ calls = <<>>

\* C12, amended: a run on an agent without an active prompt, or without a
\* model alias, is not rejected for that: the fixed default prompt, or the
\* fixed default alias, stands in and is passed to every generate call.
C12_DefaultsSubstituted ==
    ( /\ agent.found
      /\ pc # "idle" )
    => /\ agent.prompt = Undefined => systemPrompt.base = DefaultSystemPrompt
       /\ agent.prompt # Undefined => systemPrompt.base = agent.prompt
       /\ agent.defaultModelAlias = Undefined => modelAlias = DefaultModelAlias
       /\ agent.defaultModelAlias # Undefined => modelAlias = agent.defaultModelAlias
       /\ \A i \in DOMAIN calls :
            /\ calls[i].systemPrompt.base = systemPrompt.base
            /\ calls[i].modelAlias = modelAlias
       /\ error \in {"none", "ModelGenerationError", "SyntaxError"}

C12_Witness ==
    /\ agent.found
    /\ agent.defaultModelAlias = Undefined
    /\ pc = "done"
    /\ Len(calls) >= 2
    /\ calls[2].ok
    /\ calls[2].modelAlias = DefaultModelAlias

\* ------------------------------------------------------------ AgentsService
\* Model of the system prompt versions kept by AgentsService
\* (src/backend/libs/agents/src/agents.service.ts): createSystemPrompt and
\* activateSystemPrompt served for any number of concurrent requests.  One
\* action is one stretch of a handler between two awaits on storage.

\* Rows the agentSystemPrompt table may come to hold.
MaxPrompts == 3
\* activateSystemPrompt calls served, one after another or at once.
MaxActivations == 2

\* The agents of the organization, and the agentId values a request may carry.
StoredAgents == {"agent-a", "agent-b"}
AgentIds == StoredAgents \cup {"agent-x"}

\* the executor is not running
RunAtRest ==
    /\ llm = FullModel
    /\ agent = NoAgent
    /\ activePrompt = Undefined
    /\ contextStore = [documents |-> <<>>, memories |-> <<>>]
    /\ systemPrompt = NoSystemPrompt
    /\ modelAlias = Undefined
    /\ retrievals = <<>>
    /\ toolExecutors = {}
    /\ previousMessages = [given |-> FALSE, list |-> <<>>]
    /\ pc = "idle"
    /\ maxSteps = 0
    /\ messages = <<>>
    /\ iteration = 0
    /\ totalInputTokens = 0
    /\ totalOutputTokens = 0
    /\ toolCallsExecuted = 0
    /\ finalOutput = <<>>
    /\ steps = <<>>
    /\ response = NoResponse
    /\ callIndex = 0
    /\ results = <<>>
    /\ calls = <<>>
    /\ invocations = <<>>
    /\ result = NoResult
    /\ error = "none"

\* prisma.agentSystemPrompt.create({data: {agentId, ..., status: 'draft'}})
DraftPrompt(agentId) == [agentId |-> agentId, status |-> "draft"]

\* updateMany({where: {agentId, status: 'active'}, data: {status: 'archived'}})
ArchiveActiveOf(rows, agentId) ==
    [p \in DOMAIN rows |->
        IF rows[p].agentId = agentId /\ rows[p].status = "active"
        THEN [rows[p] EXCEPT !.status = "archived"]
        ELSE rows[p]]

\* update({where: {id: promptId}, data: {status: 'active'}})
SetActive(rows, promptId) == [rows EXCEPT ![promptId].status = "active"]

\* The handler's two reads: checkOrgAccess (ForbiddenException when the caller
\* is no member) and agent.findFirst (NotFoundException).
AfterChecks(member, agentId) ==
    IF ~member THEN "forbidden"
    ELSE IF agentId \notin StoredAgents THEN "not_found"
    ELSE "passed"

PromptsInit == RunAtRest /\ PromptsAtRest /\ ChatAtRest /\ GuardAtRest /\ GatewayAtRest

\* createSystemPrompt: after its checks have passed, the draft row is created.
CreateSystemPrompt ==
    /\ Len(systemPrompts) < MaxPrompts
    /\ \E agentId \in AgentIds, member \in BOOLEAN :
        /\ AfterChecks(member, agentId) = "passed"
        /\ systemPrompts' = Append(systemPrompts, DraftPrompt(agentId))
    /\ UNCHANGED <<runVars, guardVars, gatewayVars, chatVars, activations>>

\* activateSystemPrompt is called: its checks resolve.
ActivateChecks ==
    /\ Len(activations) < MaxActivations
    /\ \E agentId \in AgentIds, promptId \in 1..MaxPrompts, member \in BOOLEAN :
        activations' =
            Append(activations,
                   [agentId |-> agentId, promptId |-> promptId,
                    at |-> IF AfterChecks(member, agentId) = "passed"
                           THEN "archive" ELSE AfterChecks(member, agentId)])
    /\ UNCHANGED <<runVars, guardVars, gatewayVars, chatVars, systemPrompts>>

\* activateSystemPrompt: the updateMany of one call resolves.
ActivateArchive ==
    \E i \in DOMAIN activations :
        /\ activations[i].at = "archive"
        /\ systemPrompts' = ArchiveActiveOf(systemPrompts, activations[i].agentId)
        /\ activations' = [activations EXCEPT ![i].at = "update"]
        /\ UNCHANGED <<runVars, guardVars, gatewayVars, chatVars>>

\* activateSystemPrompt: the update of one call resolves and the row is returned.
ActivateUpdate ==
    \E i \in DOMAIN activations :
        /\ activations[i].at = "update"
        /\ activations[i].promptId \in DOMAIN systemPrompts
        /\ systemPrompts' = SetActive(systemPrompts, activations[i].promptId)
        /\ activations' = [activations EXCEPT ![i].at = "returned"]
        /\ UNCHANGED <<runVars, guardVars, gatewayVars, chatVars>>

\* activateSystemPrompt: update finds no row with this id and rejects.
ActivateUpdateMissing ==
    \E i \in DOMAIN activations :
        /\ activations[i].at = "update"
        /\ activations[i].promptId \notin DOMAIN systemPrompts
        /\ activations' = [activations EXCEPT ![i].at = "record_not_found"]
        /\ UNCHANGED <<runVars, guardVars, gatewayVars, chatVars, systemPrompts>>

PromptsNext ==
    \/ CreateSystemPrompt
    \/ ActivateChecks
    \/ ActivateArchive
    \/ ActivateUpdate
    \/ ActivateUpdateMissing

SpecPrompts == PromptsInit /\ [][PromptsNext]_vars

\* the rows of an agent that are active
ActiveOf(agentId) ==
    { p \in DOMAIN systemPrompts :
        systemPrompts[p].agentId = agentId /\ systemPrompts[p].status = "active" }

\* C13: whatever createSystemPrompt and activateSystemPrompt calls have been
\* served, in whatever interleaving, no agent has more than one system
\* prompt whose status is 'active'.
C13_AtMostOneActive ==
    \A agentId \in StoredAgents : Cardinality(ActiveOf(agentId)) <= 1

\* C14: every generate call of a run carries the prompt read at the start of
\* the run (the version active when findUnique resolved), the same in all
\* calls, whatever version storage holds as active when the call is made.
C14_PromptFixedAtStart ==
    \A i \in DOMAIN calls :
        /\ calls[i].systemPrompt.base =
              (IF agent.prompt = Undefined THEN DefaultSystemPrompt ELSE agent.prompt)
        /\ calls[i].systemPrompt.base = calls[1].systemPrompt.base
        /\ calls[i].systemPrompt.contexts = calls[1].systemPrompt.contexts

C14_Witness ==
    /\ agent.prompt = <<"triage-v1">>
    /\ Len(calls) >= 2
    /\ calls[1].stored = <<"triage-v1">>
    /\ calls[2].stored = <<"triage-v2">>
    /\ calls[2].ok
    /\ calls[2].systemPrompt.base = <<"triage-v1">>

\* C15: the previousMessages list of the caller is, at every moment of the
\* run and after it, the list the caller passed.
C15_CallerListUntouched == previousMessages \in PreviousMessageOptions

\* positions of the assistant message that carries these requests
AssistantOf(msgs, toolCalls) ==
    { a \in DOMAIN msgs : msgs[a].role = "assistant" /\ msgs[a].tool_calls = toolCalls }

\* C16: the message list of every generate call but the first holds, for
\* every request of every earlier round, exactly one tool message with the
\* request's id; it stands after the assistant message of that round, and
\* the tool messages of a round follow the order of its requests.
C16_RequestsAnsweredInOrder ==
    \A n \in DOMAIN calls : \A j \in 1..(n - 1) :
        LET msgs == calls[n].messages
            reqs == calls[j].response.toolCalls
        IN reqs # <<>> =>
            /\ Cardinality(AssistantOf(msgs, reqs)) = 1
            /\ \A k \in DOMAIN reqs :
                /\ Cardinality(AnswersTo(msgs, reqs[k].id)) = 1
                /\ \A p \in AnswersTo(msgs, reqs[k].id) :
                    /\ \A a \in AssistantOf(msgs, reqs) : a < p
                    /\ \A l \in DOMAIN reqs : \A q \in AnswersTo(msgs, reqs[l].id) :
                        k < l => p < q

C16_Witness ==
    /\ Len(calls) >= 2
    /\ Len(calls[1].response.toolCalls) = 2
    /\ calls[2].ok
    /\ Cardinality(AnswersTo(calls[2].messages, calls[1].response.toolCalls[2].id)) = 1

\* C17: a plan_and_execute run first makes one planning call, with the
\* planning instructions and no tools, on the conversation ending with the
\* user input; every later call is a loop call with tools offered whose
\* conversation continues with the plan as an assistant message right after
\* the user input; the run makes at most 1 + maxSteps calls, and no executor
\* is invoked before the planning call has returned.
C17_PlanThenLoop ==
    ( /\ agent.planningMode = "plan_and_execute"
      /\ agent.found
      /\ pc # "idle" )
    => /\ Len(calls) <= 1 + maxSteps
       /\ maxSteps = (IF agent.maxSteps = 0 THEN DefaultMaxSteps ELSE agent.maxSteps)
       /\ invocations # <<>> => (Len(calls) >= 2 /\ calls[1].ok)
       /\ pc \in {"loop", "tools", "executing", "done"} => (calls # <<>> /\ calls[1].ok)
       /\ \A i \in DOMAIN calls :
            IF i = 1
            THEN /\ calls[i].prompt = "planning"
                 /\ calls[i].systemPrompt.instructions # <<>>
                 /\ ~calls[i].tools
                 /\ calls[i].messages[Len(calls[i].messages)] = UserMessage(InputText)
            ELSE /\ calls[i].prompt = "system"
                 /\ calls[i].systemPrompt.instructions = <<>>
                 /\ calls[i].tools
                 /\ LET at == Len(calls[1].messages) + 1
                        plan == calls[i].messages[at]
                    IN /\ SubSeq(calls[i].messages, 1, at - 1) = calls[1].messages
                       /\ plan.role = "assistant"
                       /\ plan.tool_calls = <<>>
                       /\ ContainsText(plan.content, calls[1].response.content)

C17_Witness ==
    /\ agent.planningMode = "plan_and_execute"
    /\ agent.maxSteps = 2
    /\ pc = "done"
    /\ Len(calls) = 3
    /\ Len(invocations) = 2

\* C18: every snippet of the prompt's context section, from a document or
\* from a memory, carries at most 1000 characters of its source text.
C18_SnippetsBounded ==
    \A k \in DOMAIN systemPrompt.contexts :
        systemPrompt.contexts[k].chars <= SnippetLimit

\* C19: every run eventually ends, by returning a result or by rejecting.
\* Under the default limit (no maxSteps stored) a run facing a model that
\* asks for a tool in every round makes no more than 10 loop calls.
C19_RunTerminates ==
    /\ <>(pc \in {"done", "rejected"})
    /\ [](agent.found /\ agent.maxSteps = 0 /\ pc # "idle" =>
            /\ maxSteps = 10
            /\ iteration <= 10
            /\ Len(calls) <= 10 + (IF agent.planningMode = "plan_and_execute"
                                   THEN 1 ELSE 0))

C19_Witness ==
    /\ agent.maxSteps = 0
    /\ agent.planningMode = "plan_and_execute"
    /\ pc = "done"
    /\ Len(calls) = 11
    /\ calls[11].response.toolCalls # <<>>
    /\ result.returned

\* ------------------------------------------------------------ ChatService
\* Model of ChatService (src/backend/libs/agents/src/agents.controller.ts)
\* beside the agent operations of AgentsService: who may create, read and run
\* what.  A caller is any authenticated user; the arguments of a call are
\* whatever the caller sends.

\* Rows of the agent and chat tables, and events of one chat.
MaxAgentRows == 1
MaxChatRows == 1
MaxChatEvents == 3
\* processMessage calls served.
MaxProcessed == 2

Users == {"alice", "bob"}
Organizations == {"org-1", "org-2"}
\* OrgMembership rows: alice belongs to org-1 only, bob to org-2 only
Memberships == {<<"alice", "org-1">>, <<"bob", "org-2">>}

\* prisma.checkOrgAccess(userId, organizationId)
CheckOrgAccess(userId, organizationId) == <<userId, organizationId>> \in Memberships

\* The history of reads keeps, for each read, who was handed the data of
\* which organization.
Remember(history, read) == history \cup {read}

\* agentId arguments: 0 stands for none given
AgentArguments == 0..MaxAgentRows

\* prisma.chat.create and prisma.chatEvent.create of sendMessage
NewChat(organizationId, userId, agentId) ==
    [organizationId |-> organizationId, userId |-> userId, agentId |-> agentId,
     isStreaming |-> TRUE, events |-> <<"user">>]

\* agentId || chat.agentId
EffectiveAgentId(agentId, chat) == IF agentId # 0 THEN agentId ELSE chat.agentId

\* the execute call of processMessage; input is given by the sender of
\* lastMessage, the last event that is not a system event
RunOf(chat, agentId) ==
    [agentId |-> EffectiveAgentId(agentId, chat),
     organizationId |-> chat.organizationId, userId |-> chat.userId,
     input |-> chat.events[Len(chat.events)]]

ChatInit == RunAtRest /\ PromptsAtRest /\ ChatAtRest /\ GuardAtRest /\ GatewayAtRest

\* AgentsService.create: checkOrgAccess, then agent.create
AgentCreate ==
    /\ Len(agentRows) < MaxAgentRows
    /\ \E userId \in Users, organizationId \in Organizations :
        /\ CheckOrgAccess(userId, organizationId)
        /\ agentRows' = Append(agentRows, [organizationId |-> organizationId])
    /\ UNCHANGED <<runVars, guardVars, gatewayVars, promptVars, chats, processing, runs, reads>>

\* AgentsService.findOne: checkOrgAccess, then findFirst({id, organizationId})
AgentFindOne ==
    /\ \E userId \in Users, organizationId \in Organizations, id \in DOMAIN agentRows :
        /\ CheckOrgAccess(userId, organizationId)
        /\ agentRows[id].organizationId = organizationId
        /\ reads' = Remember(reads, [userId |-> userId,
                                 organizationId |-> agentRows[id].organizationId])
    /\ UNCHANGED <<runVars, guardVars, gatewayVars, promptVars, agentRows, chats, processing, runs>>

\* ChatService.sendMessage without chatId: the chat and its first event are
\* created with the organizationId, userId and agentId of the call.
SendMessageNew ==
    /\ Len(chats) < MaxChatRows
    /\ \E userId \in Users, organizationId \in Organizations,
          agentId \in AgentArguments :
        /\ agentId # 0 => agentId \in DOMAIN agentRows
        /\ chats' = Append(chats, NewChat(organizationId, userId, agentId))
    /\ UNCHANGED <<runVars, guardVars, gatewayVars, promptVars, agentRows, processing, runs, reads>>

\* ChatService.sendMessage with chatId: findFirst({id, userId, organizationId}),
\* then the user event is created.
SendMessageExisting ==
    /\ \E userId \in Users, organizationId \in Organizations, chatId \in DOMAIN chats :
        /\ chats[chatId].userId = userId
        /\ chats[chatId].organizationId = organizationId
        /\ Len(chats[chatId].events) < MaxChatEvents
        /\ chats' = [chats EXCEPT ![chatId].events = Append(@, "user")]
    /\ UNCHANGED <<runVars, guardVars, gatewayVars, promptVars, agentRows, processing, runs, reads>>

\* ChatService.listChats: the chats with this organizationId and userId
ListChats ==
    /\ \E userId \in Users, organizationId \in Organizations :
        /\ \E chatId \in DOMAIN chats :
            /\ chats[chatId].userId = userId
            /\ chats[chatId].organizationId = organizationId
        /\ reads' = Remember(reads, [userId |-> userId,
                                 organizationId |-> organizationId])
    /\ UNCHANGED <<runVars, guardVars, gatewayVars, promptVars, agentRows, chats, processing, runs>>

\* ChatService.getChatHistory: findFirst({id, userId})
GetChatHistory ==
    /\ \E userId \in Users, chatId \in DOMAIN chats :
        /\ chats[chatId].userId = userId
        /\ reads' = Remember(reads, [userId |-> userId,
                                 organizationId |-> chats[chatId].organizationId])
    /\ UNCHANGED <<runVars, guardVars, gatewayVars, promptVars, agentRows, chats, processing, runs>>

\* ChatService.processMessage up to its execute call: findUnique({id}); with
\* an agent to run, agentExecutor.execute is called for the chat's owner.
ProcessMessage ==
    /\ processing = NotProcessing
    /\ Len(runs) < MaxProcessed
    /\ \E chatId \in DOMAIN chats, agentId \in AgentArguments :
        /\ agentId # 0 => agentId \in DOMAIN agentRows
        /\ EffectiveAgentId(agentId, chats[chatId]) # 0
        /\ Len(chats[chatId].events) < MaxChatEvents
        /\ runs' = Append(runs, RunOf(chats[chatId], agentId))
        /\ processing' = [chatId |-> chatId, at |-> "execute"]
    /\ UNCHANGED <<runVars, guardVars, gatewayVars, promptVars, agentRows, chats, reads>>

\* execute resolves: the agent event is created
ProcessExecuteReturns ==
    /\ processing.at = "execute"
    /\ chats' = [chats EXCEPT ![processing.chatId].events = Append(@, "agent")]
    /\ processing' = [processing EXCEPT !.at = "update"]
    /\ UNCHANGED <<runVars, guardVars, gatewayVars, promptVars, agentRows, runs, reads>>

\* execute rejects: processMessage rejects
ProcessExecuteRejects ==
    /\ processing.at = "execute"
    /\ processing' = NotProcessing
    /\ UNCHANGED <<runVars, guardVars, gatewayVars, promptVars, agentRows, chats, runs, reads>>

\* chat.update({isStreaming: false, ...}); processMessage returns the result
ProcessUpdate ==
    /\ processing.at = "update"
    /\ chats' = [chats EXCEPT ![processing.chatId].isStreaming = FALSE]
    /\ processing' = NotProcessing
    /\ UNCHANGED <<runVars, guardVars, gatewayVars, promptVars, agentRows, runs, reads>>

ChatNext ==
    \/ AgentCreate
    \/ AgentFindOne
    \/ SendMessageNew
    \/ SendMessageExisting
    \/ ListChats
    \/ GetChatHistory
    \/ ProcessMessage
    \/ ProcessExecuteReturns
    \/ ProcessExecuteRejects
    \/ ProcessUpdate

SpecChat == ChatInit /\ [][ChatNext]_vars

\* C20: every chat belongs to an organization its owner is a member of, data
\* of an organization is handed only to its members, and an agent is run
\* only for a member of the agent's organization.
C20_OrganizationIsolation ==
    /\ \A chatId \in DOMAIN chats :
        CheckOrgAccess(chats[chatId].userId, chats[chatId].organizationId)
    /\ \A r \in reads : CheckOrgAccess(r.userId, r.organizationId)
    /\ \A k \in DOMAIN runs :
        CheckOrgAccess(runs[k].userId, agentRows[runs[k].agentId].organizationId)

\* ------------------------------------------------------------ RbacGuard
\* Model of RbacGuard.canActivate (src/backend/libs/common/src/guards/
\* rbac.guard.ts) before the routes of AgentsController.  JwtAuthGuard has
\* admitted the request, so request.user is set; everything else of the
\* request is what the client sent.  One action is one stretch of canActivate
\* between two awaits on prisma.userHasPermission.

\* Role.permissions of the roles, and the role of each membership: alice is
\* an editor of org-1, bob an admin of org-2.
RolePermissions ==
    [editor |-> {"agents.create", "agents.update", "agents.run"},
     admin |-> {"agents.create", "agents.update", "agents.delete", "agents.run"}]
MembershipRole(userId) == IF userId = "alice" THEN "editor" ELSE "admin"

\* prisma.userHasPermission(userId, organizationId, permissionKey)
UserHasPermission(userId, organizationId, permissionKey) ==
    /\ CheckOrgAccess(userId, organizationId)
    /\ permissionKey \in RolePermissions[MembershipRole(userId)]

\* The routes of AgentsController: the permissions of @RequirePermissions and
\* where the handler takes organizationId from (@Query or the body).
Routes ==
    { [name |-> "findAll", requiredPermissions |-> <<>>, carries |-> "query"],
      [name |-> "findOne", requiredPermissions |-> <<>>, carries |-> "query"],
      [name |-> "create", requiredPermissions |-> <<"agents.create">>,
       carries |-> "body"],
      [name |-> "update", requiredPermissions |-> <<"agents.update">>,
       carries |-> "query"],
      [name |-> "delete", requiredPermissions |-> <<"agents.delete">>,
       carries |-> "query"],
      [name |-> "getSystemPrompts", requiredPermissions |-> <<>>,
       carries |-> "query"],
      [name |-> "createSystemPrompt", requiredPermissions |-> <<"agents.update">>,
       carries |-> "query"],
      [name |-> "activateSystemPrompt", requiredPermissions |-> <<"agents.update">>,
       carries |-> "query"],
      [name |-> "getRuns", requiredPermissions |-> <<>>, carries |-> "query"],
      [name |-> "manualRun", requiredPermissions |-> <<"agents.run">>,
       carries |-> "body"] }

RouteOf(req) == CHOOSE r \in Routes : r.name = req.route

\* What a client may send: no route of the controller has an organizationId
\* path parameter, the query string and the body are the client's.
Requests ==
    [route : {r.name : r \in Routes}, user : {"alice", "bob"}, params : {"none"},
     query : {"none", "org-1", "org-2"}, body : {"none", "org-1", "org-2"}]

\* request.params.organizationId || request.body?.organizationId
OrganizationIdOf(req) == IF req.params # "none" THEN req.params ELSE req.body

\* the organization the handler of the route will act in
NamedOrganization(req) ==
    IF RouteOf(req).carries = "query" THEN req.query ELSE req.body

GuardInit ==
    /\ RunAtRest /\ PromptsAtRest /\ ChatAtRest /\ GatewayAtRest
    /\ httpRequest \in Requests
    /\ guard = [at |-> "called", index |-> 0]

\* canActivate up to its first await: no permission required, the context
\* check, or the first userHasPermission call
CanActivate ==
    /\ guard.at = "called"
    /\ guard' =
        IF RouteOf(httpRequest).requiredPermissions = <<>>
        THEN [at |-> "admitted", index |-> 0]
        ELSE IF OrganizationIdOf(httpRequest) = "none"
        THEN [at |-> "context_missing", index |-> 0]
        ELSE [at |-> "checking", index |-> 1]
    /\ UNCHANGED <<runVars, promptVars, chatVars, gatewayVars, httpRequest>>

\* userHasPermission resolves: ForbiddenException, the next permission, or
\* return true
PermissionResolves ==
    /\ guard.at = "checking"
    /\ LET required == RouteOf(httpRequest).requiredPermissions IN
       guard' =
        IF ~UserHasPermission(httpRequest.user, OrganizationIdOf(httpRequest),
                              required[guard.index])
        THEN [at |-> "permission_missing", index |-> guard.index]
        ELSE IF guard.index < Len(required)
        THEN [at |-> "checking", index |-> guard.index + 1]
        ELSE [at |-> "admitted", index |-> guard.index]
    /\ UNCHANGED <<runVars, promptVars, chatVars, gatewayVars, httpRequest>>

GuardNext == CanActivate \/ PermissionResolves

SpecGuard == GuardInit /\ [][GuardNext]_vars

\* the user holds every required permission in the organization the request
\* names
HoldsAll(req) ==
    /\ NamedOrganization(req) # "none"
    /\ \A k \in DOMAIN RouteOf(req).requiredPermissions :
        UserHasPermission(req.user, NamedOrganization(req),
                          RouteOf(req).requiredPermissions[k])

\* C21: once canActivate has decided on a request to a route with required
\* permissions, the request is admitted if and only if its user holds every
\* required permission in the organization the request names, be it named in
\* the body or in the query string.
C21_AdmittedIffPermitted ==
    ( /\ guard.at \in {"admitted", "context_missing", "permission_missing"}
      /\ RouteOf(httpRequest).requiredPermissions # <<>> )
    => (guard.at = "admitted" <=> HoldsAll(httpRequest))

\* ------------------------------------------------------------ ChatGateway
\* Model of ChatGateway (src/backend/libs/chat/src/chat.gateway.ts) serving
\* streamChat requests, one after another, through ChatService.processMessage
\* while users go on sending messages.  One action is one stretch of
\* processAndStream, processMessage included, between two awaits.  The text of
\* the agent's output is measured in characters.

\* chunkText(result.output, 20)
ChunkSize == 20
\* lengths of result.output: empty, one full chunk, two chunks and a rest
OutputLengths == {0, 20, 45}

RECURSIVE ChunkTextFrom(_, _, _)
ChunkTextFrom(length, chunkSize, i) ==
    IF i < length
    THEN <<(IF i + chunkSize < length THEN chunkSize ELSE length - i)>>
            \o ChunkTextFrom(length, chunkSize, i + chunkSize)
    ELSE <<>>

\* chunkText(text, chunkSize): the lengths of the chunks
ChunkText(length, chunkSize) == ChunkTextFrom(length, chunkSize, 0)

\* client.emit for the request under way
Emit(event) == [emitted EXCEPT ![Len(emitted)] = Append(@, event)]

\* what processAndStream emits next when `remaining` chunks are left
NextEmit(remaining) == IF remaining = 0 THEN "streamComplete" ELSE "streamChunk"

\* (variant: processAndStream returns after its first emit)
AfterEmitReturns(event, remaining) == NoStream

\* the request under way after an emit
AfterEmit(event, remaining) ==
    IF event = "streamChunk"
    THEN [stream EXCEPT !.at = "chunks", !.chunks = remaining - 1]
    ELSE NoStream

\* A chat has been created by sendMessage, for an agent of the organization or
\* for none.
StreamInit ==
    /\ RunAtRest /\ PromptsAtRest /\ GuardAtRest /\ GatewayAtRest
    /\ agentRows = <<[organizationId |-> "org-1"]>>
    /\ \E agentId \in 0..1 : chats = <<NewChat("org-1", "alice", agentId)>>
    /\ processing = NotProcessing
    /\ runs = <<>>
    /\ reads = {}

\* handleStreamChat: streamStart is emitted and processMessage is called
HandleStreamChat ==
    /\ stream = NoStream
    /\ Len(emitted) < MaxProcessed
    /\ \E chatId \in 1..(Len(chats) + 1), agentId \in AgentArguments :
        /\ agentId # 0 => agentId \in DOMAIN agentRows
        /\ stream' = [at |-> "find", chatId |-> chatId, agentId |-> agentId,
                      output |-> 0, chunks |-> 0]
    /\ emitted' = Append(emitted, <<"streamStart">>)
    /\ UNCHANGED <<runVars, promptVars, guardVars, chatVars>>

\* processMessage: findUnique resolves with no chat; NotFoundException is
\* caught by processAndStream
StreamChatNotFound ==
    /\ stream.at = "find"
    /\ stream.chatId \notin DOMAIN chats
    /\ emitted' = Emit("streamError")
    /\ stream' = NoStream
    /\ UNCHANGED <<runVars, promptVars, guardVars, chatVars>>

\* processMessage: no agent is given and the chat has none; null is returned
\* and processAndStream completes without a chunk
StreamNoAgent ==
    /\ stream.at = "find"
    /\ stream.chatId \in DOMAIN chats
    /\ EffectiveAgentId(stream.agentId, chats[stream.chatId]) = 0
    /\ emitted' = Emit("streamComplete")
    /\ stream' = NoStream
    /\ UNCHANGED <<runVars, promptVars, guardVars, chatVars>>

\* processMessage: agentExecutor.execute is called with the last message
StreamExecute ==
    /\ stream.at = "find"
    /\ stream.chatId \in DOMAIN chats
    /\ EffectiveAgentId(stream.agentId, chats[stream.chatId]) # 0
    /\ runs' = Append(runs, RunOf(chats[stream.chatId], stream.agentId))
    /\ stream' = [stream EXCEPT !.at = "execute"]
    /\ UNCHANGED <<runVars, promptVars, guardVars, agentRows, chats, processing,
                   reads, emitted>>

\* execute resolves: the agent event is created
StreamExecuteReturns ==
    /\ stream.at = "execute"
    /\ \E output \in OutputLengths :
        stream' = [stream EXCEPT !.at = "update", !.output = output]
    /\ chats' = [chats EXCEPT ![stream.chatId].events = Append(@, "agent")]
    /\ UNCHANGED <<runVars, promptVars, guardVars, agentRows, processing, runs,
                   reads, emitted>>

\* execute rejects: processMessage rejects and processAndStream catches
StreamExecuteRejects ==
    /\ stream.at = "execute"
    /\ emitted' = Emit("streamError")
    /\ stream' = NoStream
    /\ UNCHANGED <<runVars, promptVars, guardVars, chatVars>>

\* chat.update({isStreaming: false}) resolves and processMessage returns the
\* result: the first chunk is emitted, or the completion when there is none
StreamUpdate ==
    /\ stream.at = "update"
    /\ chats' = [chats EXCEPT ![stream.chatId].isStreaming = FALSE]
    /\ LET remaining == Len(ChunkText(stream.output, ChunkSize)) IN
        /\ emitted' = Emit(NextEmit(remaining))
        /\ stream' = AfterEmit(NextEmit(remaining), remaining)
    /\ UNCHANGED <<runVars, promptVars, guardVars, agentRows, processing, runs,
                   reads>>

\* the delay after a chunk has passed: the next chunk or the completion
StreamTimeout ==
    /\ stream.at = "chunks"
    /\ emitted' = Emit(NextEmit(stream.chunks))
    /\ stream' = AfterEmit(NextEmit(stream.chunks), stream.chunks)
    /\ UNCHANGED <<runVars, promptVars, guardVars, chatVars>>

StreamNext ==
    \/ SendMessageExisting
    \/ HandleStreamChat
    \/ StreamChatNotFound
    \/ StreamNoAgent
    \/ StreamExecute
    \/ StreamExecuteReturns
    \/ StreamExecuteRejects
    \/ StreamUpdate
    \/ StreamTimeout

SpecStream == StreamInit /\ [][StreamNext]_vars

\* the events that end a stream
TerminalEvents == {"streamComplete", "streamError"}

\* the request whose events are emitted[k] has ended
Ended(k) == k < Len(emitted) \/ stream = NoStream

C23_LoopStateMachine ==
    [][ agent.planningMode = "loop_with_limits" =>
          /\ (Len(calls') > Len(calls) /\ calls'[Len(calls')].ok) =>
                /\ pc' = "done" <=> calls'[Len(calls')].response.toolCalls = <<>>
                /\ pc' = "tools" <=> calls'[Len(calls')].response.toolCalls # <<>>
          /\ (pc = "tools" /\ pc' = "loop") => LoopContinue(iteration', maxSteps')
          /\ (pc # "done" /\ pc' = "done") => Len(calls') > Len(calls)
      ]_<<pc, calls>>

\* ------------------------------------------------------------ one round of tools
\* C24: within a round the executors are invoked one at a time in the order
\* of the requests: when the executor of a request is invoked, or the
\* request is otherwise handled, every earlier request of the round has its
\* result, and no later one has been invoked; the results stand in the order
\* of the requests, and the list a completed round hands back has one result
\* for each request.
C24_OneAtATimeInOrder ==
    /\ \A a, b \in DOMAIN invocations : a < b => invocations[a] < invocations[b]
    /\ pc \in {"tools", "executing"} =>
        /\ Len(results) = callIndex - 1
        /\ \A k \in DOMAIN results : results[k].toolCallId = response.toolCalls[k].id
        /\ \A j \in DOMAIN response.toolCalls :
            response.toolCalls[j].id \in Range(invocations) =>
                \/ j < callIndex
                \/ j = callIndex /\ pc = "executing"
                     /\ invocations[Len(invocations)] = response.toolCalls[j].id
    /\ \A s \in DOMAIN steps :
        steps[s].type = "tool_call" =>
            \E c \in DOMAIN calls :
                /\ Len(calls[c].response.toolCalls) = Len(steps[s].data)
                /\ \A k \in DOMAIN steps[s].data :
                    steps[s].data[k].toolCallId = calls[c].response.toolCalls[k].id

C24_Witness ==
    /\ pc = "executing"
    /\ callIndex = 2
    /\ Len(response.toolCalls) = 2
    /\ Len(invocations) = 2
    /\ Len(results) = 1
    /\ Thrown(results[1])

\* C25: a request whose arguments string is not valid JSON gets an error
\* result like any other failed request; the run does not reject for it, and
\* the remaining requests of the round are handled.
C25_InvalidArgumentsAbsorbed ==
    /\ ~(pc = "rejected" /\ error = "SyntaxError")
    /\ pc \in {"tools", "executing"} =>
        \A k \in DOMAIN results :
            ~ParseOk(response.toolCalls[k]) => results[k].error # Undefined

\* C26: when a run has returned, every executor invocation it made has its
\* result in the message list of a model call of the run: no tool was
\* executed whose result the model never saw.
C26_EveryResultSeen ==
    pc = "done" =>
        \A a \in DOMAIN invocations :
            \E c \in DOMAIN calls : AnswersTo(calls[c].messages, invocations[a]) # {}

\* the positions of the steps of one type in a trace
StepsOfType(trace, type) == { k \in DOMAIN trace : trace[k].type = type }

\* C27: the step trace of a returned result holds one llm_call step for each
\* model call of the run, the planning call included, and one tool_call step
\* for each round of tools, each right after the llm_call step of the
\* response that requested it.
C27_TraceMatchesCalls ==
    result.returned =>
        /\ Cardinality(StepsOfType(result.steps, "llm_call")) = Len(calls)
        /\ Cardinality(StepsOfType(result.steps, "tool_call")) =
              Cardinality({ c \in DOMAIN calls : calls[c].response.toolCalls # <<>> })
        /\ \A k \in StepsOfType(result.steps, "tool_call") :
              k > 1 /\ result.steps[k - 1].type = "llm_call"

\* C28: toolCallsExecuted counts the requests of every response whose tools
\* have been executed, whether their executor returned, threw or was not
\* found: during the run it is the number of requests of the completed
\* rounds, in a returned result the number of all requests of the run, and
\* so never less than the number of executor invocations of those rounds.
C28_CountsRequests ==
    /\ pc \in {"single_final", "loop", "tools", "executing", "done"} =>
        toolCallsExecuted =
            TotalRequested(calls) -
                (IF pc \in {"tools", "executing"} THEN Len(response.toolCalls) ELSE 0)
    /\ result.returned =>
        /\ result.toolCallsExecuted = TotalRequested(calls)
        /\ result.toolCallsExecuted >= Len(invocations)

C28_Witness ==
    /\ agent.planningMode = "loop_with_limits"
    /\ result.returned
    /\ result.toolCallsExecuted = 2
    /\ Len(invocations) = 1
    /\ Len(calls) = 2

\* ------------------------------------------------------------ the chat behind the stream
\* C29: whatever sendMessage calls and streamChat requests a chat has seen,
\* the input of every agentExecutor.execute call of processMessage is the
\* content of an event sent by the user, never of an event written by the
\* agent.
C29_InputIsUserMessage ==
    \A k \in DOMAIN runs : runs[k].input = "user"

\* C30: when the processing of a chat's message ends, with streamComplete or
\* with streamError, the chat that sendMessage created with isStreaming = true
\* has isStreaming = false.
C30_StreamingFlagCleared ==
    [][ ( /\ stream.at # "none"
          /\ stream'.at = "none"
          /\ stream.chatId \in DOMAIN chats )
        => ~chats'[stream.chatId].isStreaming ]_vars

====
